---- MODULE Spec2Model ----
(***************************************************************************)
(* Model of src/lib/types/post-message.ts: the canister-ID resolution      *)
(* (readCanisterIds, dfxCanisterIds), the Vite configuration callback that *)
(* merges their results into process.env, and the manualChunks rule.       *)
(*                                                                         *)
(* Strings the code transforms (canister names, environment keys, module   *)
(* ids) are sequences of one-character strings, so that toUpperCase,       *)
(* replaceAll, template concatenation, includes and dirname are computed.  *)
(* Strings the code only compares or stores (network names, canister IDs,  *)
(* file paths) are atomic.                                                 *)
(***************************************************************************)
EXTENDS Naturals, Sequences, FiniteSets, TLC

VARIABLES
    processEnv,  \* process.env: environment key -> value
    previousEnv, \* process.env as the last run of the callback found it (bookkeeping)
    network,     \* the module constant `network` (line 35)
    fs,          \* the three configuration files under process.cwd()
    loadEnvGives, \* what the external call loadEnv returns per mode, and writes
    call,        \* the operation that ran last, with its arguments
    returned,    \* what that operation returned
    warned,      \* the files named by the console.warn calls of that operation
    filesRead,   \* the files that operation passed to readFileSync, in order
    modes,       \* the modes that operation passed to loadEnv, in order
    tried,       \* how the try block of that operation ended (bookkeeping)
    chunk        \* the module id given to manualChunks, and the chunk name returned

vars == <<processEnv, previousEnv, network, fs, loadEnvGives, call, returned, warned, filesRead, modes,
          tried, chunk>>

----------------------------------------------------------------------------
(* Bounds of the checked instances.                                        *)

\* Longest record (number of canister entries) of a configuration file.
MaxEntries == 2
\* Longest record of a configuration file when the whole callback is run.
MaxCfgEntries == 1
\* Most path segments of a module id handed to manualChunks.
MaxSegments == 4

----------------------------------------------------------------------------
(* JavaScript values.                                                      *)

\* The value `undefined`: distinct from every string a file or the
\* environment holds.
Undefined == "#undefined"

\* A parsed JSON value the code reads properties of: null, or an object
\* given by its properties, a set of <<name, value>> pairs.
JsNull == [type |-> "null", props |-> {}]
Obj(props) == [type |-> "object", props |-> props]
IsNull(v) == v.type = "null"

\* An optional property is <<>> when absent and <<v>> when it holds v.
Absent == <<>>
Some(v) == <<v>>

\* An object used as a string-keyed mapping, e.g. Record<string, string>.
EmptyMap == [k \in {} |-> Undefined]

\* { ...a, ...b }: b's properties override a's.
Spread(a, b) ==
    [k \in (DOMAIN a) \cup (DOMAIN b) |-> IF k \in DOMAIN b THEN b[k] ELSE a[k]]

\* { ...acc, [key]: value }
WithKey(acc, key, value) == Spread(acc, [k \in {key} |-> value])

\* The members every parsed object inherits from Object.prototype, with the
\* value a property read gives: functions and an object, none a string.
ObjectPrototype ==
    {<<"constructor", "#[Function: Object]">>,
     <<"toString", "#[Function: toString]">>,
     <<"toLocaleString", "#[Function: toLocaleString]">>,
     <<"valueOf", "#[Function: valueOf]">>,
     <<"hasOwnProperty", "#[Function: hasOwnProperty]">>,
     <<"isPrototypeOf", "#[Function: isPrototypeOf]">>,
     <<"propertyIsEnumerable", "#[Function: propertyIsEnumerable]">>,
     <<"__defineGetter__", "#[Function: __defineGetter__]">>,
     <<"__defineSetter__", "#[Function: __defineSetter__]">>,
     <<"__lookupGetter__", "#[Function: __lookupGetter__]">>,
     <<"__lookupSetter__", "#[Function: __lookupSetter__]">>,
     <<"__proto__", "#[Object: null prototype] {}">>}

\* The property `key` among the <<name, value>> pairs `props`, if any.
HasProp(props, key) == \E p \in props : p[1] = key
Prop(props, key) == (CHOOSE p \in props : p[1] = key)[2]

\* obj[key] on a parsed object, an ordinary property read: the object's own
\* property, else the member inherited from Object.prototype, else undefined.
Get(obj, key) ==
    IF HasProp(obj.props, key) THEN Prop(obj.props, key)
    ELSE IF HasProp(ObjectPrototype, key) THEN Prop(ObjectPrototype, key)
    ELSE Undefined

----------------------------------------------------------------------------
(* Strings as sequences of characters.                                     *)

Lower == <<"a","b","c","d","e","f","g","h","i","j","k","l","m",
           "n","o","p","q","r","s","t","u","v","w","x","y","z">>
Upper == <<"A","B","C","D","E","F","G","H","I","J","K","L","M",
           "N","O","P","Q","R","S","T","U","V","W","X","Y","Z">>

UpperChar(c) ==
    IF \E i \in 1..Len(Lower) : Lower[i] = c
    THEN Upper[CHOOSE i \in 1..Len(Lower) : Lower[i] = c]
    ELSE c

\* String.prototype.toUpperCase on ASCII text.
ToUpperCase(s) == [i \in 1..Len(s) |-> UpperChar(s[i])]

\* String.prototype.replaceAll(from, to) for a one-character pattern `from`
\* and a replacement string `to` (possibly empty).
RECURSIVE ReplaceAll(_, _, _)
ReplaceAll(s, from, to) ==
    IF s = <<>> THEN <<>>
    ELSE (IF Head(s) = from THEN to ELSE <<Head(s)>>) \o ReplaceAll(Tail(s), from, to)

\* String.prototype.includes: `sub` occurs in `s` as a contiguous substring.
Includes(s, sub) ==
    \E i \in 0..(Len(s) - Len(sub)) :
        \A j \in 1..Len(sub) : s[i + j] = sub[j]

VITE_ == <<"V","I","T","E","_">>
CANISTER_ID == <<"_","C","A","N","I","S","T","E","R","_","I","D">>
DFX_NETWORK == <<"D","F","X","_","N","E","T","W","O","R","K">>

\* prefix ?? '' for the optional property `prefix?: string`
PrefixOrEmpty(prefix) == IF prefix = Absent THEN <<>> ELSE prefix[1]

----------------------------------------------------------------------------
(* The files.  readFileSync and JSON.parse are library code: a file is     *)
(* given by what the two calls make of it.                                 *)
(*   [kind |-> "ENOENT"]       readFileSync throws (missing or unreadable) *)
(*   [kind |-> "SyntaxError"]  JSON.parse throws                           *)
(*   [kind |-> "json", value |-> v]  the parsed value v                    *)
(* A parsed object whose properties the code enumerates with               *)
(* Object.entries is given by `entries`, the sequence of its               *)
(* [name, details] pairs in Object.entries order.                          *)

CanisterIdsJson == "canister_ids.json"
LocalCanisterIdsJson == ".dfx/local/canister_ids.json"
DfxJson == "dfx.json"
Files == {CanisterIdsJson, LocalCanisterIdsJson, DfxJson}

Missing == [kind |-> "ENOENT"]
Invalid == [kind |-> "SyntaxError"]
Json(v) == [kind |-> "json", value |-> v]

\* A parsed canister_ids.json: Record<string, Details>.
IdsRecord(entries) == [type |-> "object", entries |-> entries]
\* A parsed dfx.json: { canisters?: Record<string, Details> }.
DfxRecord(canisters) == [type |-> "object", canisters |-> canisters]
\* A Details of dfx.json: { remote?: ... }, and a remote: { id?: ... }.
DfxDetails(remote) == [type |-> "object", remote |-> remote]
Remote(id) == [type |-> "object", id |-> id]

\* The outcome of evaluating the body of a try block: whether it threw,
\* with the accumulator of the reduce at that point and the number of
\* entries the reducer had processed.
Thrown(acc, n) == [threw |-> TRUE, value |-> acc, processed |-> n]
Returned(acc, n) == [threw |-> FALSE, value |-> acc, processed |-> n]

\* ['ic', 'staging'].includes(network)
IsRemoteNetwork(net) == net \in {"ic", "staging"}

\* The file readCanisterIds reads (lines 38-40).
CanisterIdsJsonFile(net) ==
    IF IsRemoteNetwork(net) THEN CanisterIdsJson ELSE LocalCanisterIdsJson

\* Mutant: off 'ic' and 'staging' the ID is looked up under 'local', the
\* name of the directory the file is read from.
DetailsKeyLocal(net) == IF IsRemoteNetwork(net) THEN net ELSE "local"

\* The key under which readCanisterIds looks up a canister's ID (line 57).
DetailsKey(net) == net

\* The property name readCanisterIds computes (line 56).
IdsKey(prefix, canisterName) ==
    PrefixOrEmpty(prefix) \o ToUpperCase(canisterName) \o CANISTER_ID

\* One step of the reducer of readCanisterIds (lines 52-58).
IdsStep(acc, current, prefix, net) ==
    WithKey(acc, IdsKey(prefix, current.name), Get(current.details, DetailsKey(net)))

\* Object.entries(config).reduce(..., {}) of readCanisterIds (lines 51-59),
\* applied to the entries left to right.  Reading a property of null throws
\* a TypeError, which leaves the reduce and the try block.
RECURSIVE ReduceIds(_, _, _, _, _)
ReduceIds(entries, acc, n, prefix, net) ==
    IF entries = <<>> THEN Returned(acc, n)
    ELSE IF IsNull(Head(entries).details) THEN Thrown(acc, n)
    ELSE ReduceIds(Tail(entries), IdsStep(acc, Head(entries), prefix, net),
                   n + 1, prefix, net)

\* The try block of readCanisterIds (lines 43-59).
TryReadCanisterIds(content, prefix, net) ==
    IF content.kind # "json" THEN Thrown(EmptyMap, 0)
    ELSE IF IsNull(content.value) THEN Thrown(EmptyMap, 0)  \* Object.entries(null)
    ELSE ReduceIds(content.value.entries, EmptyMap, 0, prefix, net)

\* Mutant: the catch clause returns what the reduce had accumulated.
CatchPartial(partial) == partial

\* What the catch clauses return (lines 62 and 106); `partial` is the
\* accumulator the failed reduce had built.
CatchResult(partial) == EmptyMap

\* Mutant: the catch clause swallows the error without a warning.
WarnNothing(file) == <<>>

\* The console.warn of a catch clause (lines 61 and 105) names the file.
WarnFile(file) == <<file>>

\* readCanisterIds({ prefix }) (lines 37-64).
readCanisterIds(prefix, net, files) ==
    LET file == CanisterIdsJsonFile(net)
        body == TryReadCanisterIds(files[file], prefix, net)
    IN  IF body.threw
        THEN [result |-> CatchResult(body.value), warned |-> WarnFile(file),
              filesRead |-> <<file>>, threw |-> TRUE, processed |-> body.processed]
        ELSE [result |-> body.value, warned |-> <<>>,
              filesRead |-> <<file>>, threw |-> FALSE, processed |-> body.processed]

\* Mutant: the apostrophes of the name are kept.
DfxKeyKeepsApostrophes(prefix, canisterName) ==
    PrefixOrEmpty(prefix)
        \o ToUpperCase(ReplaceAll(canisterName, "-", <<"_">>))
        \o CANISTER_ID

\* The property name dfxCanisterIds computes (lines 95-98).
DfxKey(prefix, canisterName) ==
    PrefixOrEmpty(prefix)
        \o ToUpperCase(ReplaceAll(ReplaceAll(canisterName, "-", <<"_">>), "'", <<>>))
        \o CANISTER_ID

\* canisterDetails.remote !== undefined (line 92): an absent property reads
\* as undefined; null is not undefined.
HasRemote(details) == details.remote # Absent

\* canisterDetails.remote.id.local throws (line 98) when remote is null or
\* has no id, or when id is null.
RemoteLocalThrows(details) ==
    LET remote == details.remote[1]
    IN  \/ IsNull(remote)
        \/ remote.id = Absent
        \/ IsNull(remote.id[1])

RemoteLocal(details) == Get(details.remote[1].id[1], "local")

\* Object.entries(canisters).reduce(..., {}) of dfxCanisterIds (lines 89-103).
RECURSIVE ReduceDfx(_, _, _, _)
ReduceDfx(entries, acc, n, prefix) ==
    IF entries = <<>> THEN Returned(acc, n)
    ELSE LET canisterName == Head(entries).name
             canisterDetails == Head(entries).details
         IN  IF IsNull(canisterDetails) THEN Thrown(acc, n)
             ELSE IF HasRemote(canisterDetails)
             THEN IF RemoteLocalThrows(canisterDetails) THEN Thrown(acc, n)
                  ELSE ReduceDfx(Tail(entries),
                                 WithKey(acc, DfxKey(prefix, canisterName),
                                         RemoteLocal(canisterDetails)),
                                 n + 1, prefix)
             ELSE ReduceDfx(Tail(entries), acc, n + 1, prefix)

\* The try block of dfxCanisterIds (lines 74-103).
TryDfxCanisterIds(content, prefix) ==
    IF content.kind # "json" THEN Thrown(EmptyMap, 0)
    ELSE IF IsNull(content.value) THEN Thrown(EmptyMap, 0)     \* destructuring null
    ELSE IF content.value.canisters = Absent THEN Thrown(EmptyMap, 0)  \* Object.entries(undefined)
    ELSE ReduceDfx(content.value.canisters[1], EmptyMap, 0, prefix)

\* Mutant: only 'ic' returns early.
DfxSkipsIcOnly(net) == net = "ic"

\* The early return of dfxCanisterIds (lines 67-69).
DfxSkips(net) == IsRemoteNetwork(net)

\* dfxCanisterIds({ prefix }) (lines 66-108).
dfxCanisterIds(prefix, net, files) ==
    IF DfxSkips(net)
    THEN [result |-> EmptyMap, warned |-> <<>>, filesRead |-> <<>>,
          threw |-> FALSE, processed |-> 0]
    ELSE LET body == TryDfxCanisterIds(files[DfxJson], prefix)
         IN  IF body.threw
             THEN [result |-> CatchResult(body.value), warned |-> WarnFile(DfxJson),
                   filesRead |-> <<DfxJson>>, threw |-> TRUE, processed |-> body.processed]
             ELSE [result |-> body.value, warned |-> <<>>,
                   filesRead |-> <<DfxJson>>, threw |-> FALSE, processed |-> body.processed]

----------------------------------------------------------------------------
(* The module constant and the configuration callback.                     *)

\* process.env.DFX_NETWORK ?? 'local' (line 35): only an unset variable
\* falls back, the empty string does not.
NetworkOf(env) ==
    IF DFX_NETWORK \in DOMAIN env /\ env[DFX_NETWORK] # Undefined
    THEN env[DFX_NETWORK]
    ELSE "local"

\* The mode handed to loadEnv (lines 171 and 181).
ModeOf(net) ==
    IF net = "ic" THEN "production"
    ELSE IF net = "staging" THEN "staging"
    ELSE "development"

Modes == {"production", "staging", "development"}

\* loadEnv(mode, process.cwd()) is a call into vite, outside this
\* repository: what it returns for each mode and what it assigns to
\* process.env on its own are inputs, held by loadEnvGives.
\* The value of the call (lines 170-173 and 180-183).
LoadEnvReturn(gives, mode) == gives.returns[mode]

\* process.env once a call of loadEnv has made its own assignments to it.
AfterLoadEnv(env, gives) == Spread(env, gives.writes)

\* Mutant: process.env is spread after the loaded variables.
MergeEnvLoadedFirst(env, loaded, ids, dfx) == Spread(Spread(Spread(loaded, env), ids), dfx)

\* The object literal assigned to process.env (lines 168-176).
MergeEnv(env, loaded, ids, dfx) == Spread(Spread(Spread(env, loaded), ids), dfx)

\* The 'process.env' entry of `define` (lines 192-196).
DefineProcessEnv(ids, dfx, net) == WithKey(Spread(ids, dfx), DFX_NETWORK, net)

----------------------------------------------------------------------------
(* manualChunks.                                                           *)

\* path.dirname (POSIX) of a module id: the id up to, and without, the last
\* '/' that is followed by a character other than '/'; '.' when there is
\* none ('/' for an absolute id), and '//' for an id such as '//x'.
LastSlash(id) ==
    LET cut == {i \in 2..Len(id) :
                   /\ id[i] = "/"
                   /\ \E j \in (i + 1)..Len(id) : id[j] # "/"}
    IN  IF cut = {} THEN 0 ELSE CHOOSE i \in cut : \A j \in cut : j <= i

Dirname(id) ==
    IF id = <<>> THEN <<".">>
    ELSE IF LastSlash(id) = 0 THEN (IF id[1] = "/" THEN <<"/">> ELSE <<".">>)
    ELSE IF id[1] = "/" /\ LastSlash(id) = 2 THEN <<"/", "/">>
    ELSE SubSeq(id, 1, LastSlash(id) - 1)

NodeModules == <<"node_modules">>
Sveltejs == <<"@", "svelte", "js">>          \* '@sveltejs'
Svelte == <<"svelte">>                         \* 'svelte'
DfinityNns == <<"@dfinity", "/", "nns">>       \* '@dfinity/nns'
DfinityNnsProto == <<"@dfinity", "/", "nns", "-proto">>  \* '@dfinity/nns-proto'

\* const lazy = [...] (line 119)
LazyLibs == {DfinityNns, DfinityNnsProto}

\* Mutant: the svelte libraries are not excluded from the vendor chunk.
IsVendorWithSvelte(folder) ==
    /\ ~ \E lib \in LazyLibs : Includes(folder, lib)
    /\ Includes(folder, NodeModules)

\* The first condition (lines 121-124).
IsVendor(folder) ==
    /\ ~ \E lib \in {Sveltejs, Svelte} \cup LazyLibs : Includes(folder, lib)
    /\ Includes(folder, NodeModules)

\* The second condition (lines 128-131).
IsLazy(folder) ==
    /\ \E lib \in LazyLibs : Includes(folder, lib)
    /\ Includes(folder, NodeModules)

\* manualChunks(id) (lines 116-136).
manualChunks(id) ==
    LET folder == Dirname(id)
    IN  IF IsVendor(folder) THEN "vendor"
        ELSE IF IsLazy(folder) THEN "lazy"
        ELSE "index"

----------------------------------------------------------------------------
(* The inputs of the checked instances.                                    *)

\* The sequences over S of length at most n whose entries have distinct
\* names: the properties of a parsed JSON object.
EntriesUpTo(names, details, n) ==
    UNION {{e \in [1..k -> [name : names, details : details]] :
               \A i, j \in 1..k : i # j => e[i].name # e[j].name} : k \in 0..n}

\* Canister names of canister_ids.json; the first two differ in case only.
\* None is a canonical array index, so Object.entries keeps the file's order.
IdsNames == {<<"a", "b">>, <<"A", "b">>, <<"c">>}
IdsDetails ==
    {JsNull,
     Obj({}),
     Obj({<<"ic", "ic-1">>, <<"staging", "st-1">>, <<"local", "lo-1">>}),
     Obj({<<"ic", "ic-2">>, <<"local", "lo-2">>})}

IdsContents(n) ==
    {Missing, Invalid, Json(JsNull)}
        \cup {Json(IdsRecord(e)) : e \in EntriesUpTo(IdsNames, IdsDetails, n)}

\* Canister names of dfx.json; the first two give the same key.
DfxNames == {<<"a", "-", "b">>, <<"a", "_", "b">>, <<"c", "'", "d">>}
DfxDetailsSet ==
    {JsNull,
     DfxDetails(Absent),
     DfxDetails(Some(Remote(Absent))),
     DfxDetails(Some(Remote(Some(Obj({}))))),
     DfxDetails(Some(Remote(Some(Obj({<<"ic", "r-ic-1">>, <<"local", "r-lo-1">>}))))),
     DfxDetails(Some(Remote(Some(Obj({<<"local", "r-lo-2">>})))))}

DfxContents(n) ==
    {Missing, Invalid, Json(JsNull), Json(DfxRecord(Absent))}
        \cup {Json(DfxRecord(Some(e))) : e \in EntriesUpTo(DfxNames, DfxDetailsSet, n)}

\* A few files, for the paths an instance does not vary.
FewIds ==
    {Missing,
     Json(IdsRecord(<<[name |-> <<"z">>,
                      details |-> Obj({<<"ic", "ic-9">>, <<"staging", "st-9">>,
                                       <<"local", "lo-9">>, <<"foo", "fo-9">>})]>>))}
FewDfx ==
    {Missing,
     Json(DfxRecord(Some(<<[name |-> <<"z">>,
                           details |-> DfxDetails(Some(Remote(Some(Obj({<<"local", "r-lo-9">>})))))]>>)))}

MkFs(root, local, dfx) ==
    [f \in Files |-> IF f = CanisterIdsJson THEN root
                     ELSE IF f = LocalCanisterIdsJson THEN local
                     ELSE dfx]

\* File systems in which one of the three files is arbitrary (up to n
\* entries) and the two others are among the few.
FileSystems(n) ==
    {MkFs(r, l, d) : r \in IdsContents(n), l \in FewIds, d \in FewDfx}
        \cup {MkFs(r, l, d) : r \in FewIds, l \in IdsContents(n), d \in FewDfx}
        \cup {MkFs(r, l, d) : r \in FewIds, l \in FewIds, d \in DfxContents(n)}

PATH == <<"P", "A", "T", "H">>
BaseEnv == [k \in {PATH} |-> "/usr/bin"]

\* The values DFX_NETWORK takes: 'foo' stands for the other network names
\* that name no member of Object.prototype, 'constructor' for those that do.
NetworkValues == {"ic", "staging", "local", "foo", "", "constructor"}
Environments == {BaseEnv} \cup {WithKey(BaseEnv, DFX_NETWORK, n) : n \in NetworkValues}

NoDotenv == [returns |-> [m \in Modes |-> EmptyMap], writes |-> EmptyMap]

\* The arguments the code passes: {} and { prefix: 'VITE_' }.
Prefixes == {Absent, Some(VITE_)}

NoCall == [fn |-> "none", prefix |-> Absent]
NoTry == [threw |-> FALSE, processed |-> 0]
NoChunk == [id |-> <<>>, name |-> "none"]

\* The files and environments of the instances that run the whole callback.
CfgIdsNames == {<<"a">>, <<"b">>}
CfgIdsDetails ==
    {Obj({}),
     Obj({<<"ic", "ic-1">>, <<"staging", "st-1">>, <<"local", "lo-1">>})}
CfgIdsContents(n) ==
    {Missing} \cup {Json(IdsRecord(e)) : e \in EntriesUpTo(CfgIdsNames, CfgIdsDetails, n)}
\* The deployed canister_ids.json of these instances names one canister.
CfgRootContents(n) ==
    {Missing} \cup {Json(IdsRecord(e)) : e \in EntriesUpTo({<<"a">>}, CfgIdsDetails, n)}

CfgDfxNames == {<<"a">>}
CfgDfxDetails ==
    {DfxDetails(Absent),
     DfxDetails(Some(Remote(Some(Obj({<<"local", "r-lo-1">>})))))}
CfgDfxContents(n) ==
    {Missing} \cup {Json(DfxRecord(Some(e))) : e \in EntriesUpTo(CfgDfxNames, CfgDfxDetails, n)}

CfgFileSystems(n) ==
    {MkFs(r, l, d) : r \in CfgRootContents(n), l \in CfgIdsContents(n), d \in CfgDfxContents(n)}

VITE_A_CANISTER_ID == VITE_ \o <<"A">> \o CANISTER_ID
VITE_MODE == VITE_ \o <<"M", "O", "D", "E">>
BROWSER == <<"B", "R", "O", "W", "S", "E", "R">>

CfgEnvironments ==
    Environments
        \cup {WithKey(WithKey(e, VITE_A_CANISTER_ID, "inline"), VITE_MODE, "inline") :
                 e \in Environments}

\* What loadEnv may give: nothing; or, for each mode, its own VITE_MODE and
\* a canister ID, without or with an assignment of BROWSER to process.env.
LoadedVars == [m \in Modes |->
              [k \in {VITE_MODE, VITE_A_CANISTER_ID} |->
                  IF k = VITE_MODE THEN m ELSE "dotenv"]]
LoadEnvOutcomes ==
    {NoDotenv,
     [returns |-> LoadedVars, writes |-> EmptyMap],
     [returns |-> LoadedVars, writes |-> [k \in {BROWSER} |-> "firefox"]]}

\* Module ids: path segments joined by '/', relative or absolute.  A
\* character of an id is "/" or a piece of a segment's name.
Segments ==
    {<<"src">>, <<"index.js">>, NodeModules, <<"@dfinity">>, <<"nns">>,
     <<"nns", "-proto">>, <<"agent">>, Sveltejs, Svelte}

RECURSIVE Join(_)
Join(segs) ==
    IF segs = <<>> THEN <<>>
    ELSE IF Len(segs) = 1 THEN segs[1]
    ELSE segs[1] \o <<"/">> \o Join(Tail(segs))

ModuleIds(n) ==
    LET paths == UNION {[1..k -> Segments] : k \in 1..n}
    IN  {Join(p) : p \in paths} \cup {<<"/">> \o Join(p) : p \in paths}

----------------------------------------------------------------------------
(* The state machine.                                                      *)

\* The state once the module is loaded: `network` is computed from the
\* environment, nothing has been called.
Loaded(env, files, dot) ==
    /\ processEnv = env
    /\ previousEnv = EmptyMap
    /\ network = NetworkOf(env)
    /\ fs = files
    /\ loadEnvGives = dot
    /\ call = NoCall
    /\ returned = EmptyMap
    /\ warned = <<>>
    /\ filesRead = <<>>
    /\ modes = <<>>
    /\ tried = NoTry
    /\ chunk = NoChunk

Init ==
    \E env \in Environments, files \in FileSystems(MaxEntries) :
        Loaded(env, files, NoDotenv)

\* A call readCanisterIds({ prefix }) or readCanisterIds({}).
ReadCanisterIds ==
    \E prefix \in Prefixes :
        LET r == readCanisterIds(prefix, network, fs)
        IN  /\ call' = [fn |-> "readCanisterIds", prefix |-> prefix]
            /\ returned' = r.result
            /\ warned' = r.warned
            /\ filesRead' = r.filesRead
            /\ tried' = [threw |-> r.threw, processed |-> r.processed]
            /\ modes' = <<>>
            /\ UNCHANGED <<processEnv, previousEnv, network, fs, loadEnvGives, chunk>>

\* A call dfxCanisterIds({ prefix }) or dfxCanisterIds({}).
DfxCanisterIds ==
    \E prefix \in Prefixes :
        LET r == dfxCanisterIds(prefix, network, fs)
        IN  /\ call' = [fn |-> "dfxCanisterIds", prefix |-> prefix]
            /\ returned' = r.result
            /\ warned' = r.warned
            /\ filesRead' = r.filesRead
            /\ tried' = [threw |-> r.threw, processed |-> r.processed]
            /\ modes' = <<>>
            /\ UNCHANGED <<processEnv, previousEnv, network, fs, loadEnvGives, chunk>>

Next == ReadCanisterIds \/ DfxCanisterIds

Spec == Init /\ [][Next]_vars

\* The exported callback (lines 166-201): process.env is reassigned (the
\* spread of the old process.env is taken before loadEnv is called, so what
\* that call assigns to the old object is not kept), the same object is
\* computed again for console.log (this call of loadEnv assigns to the new
\* process.env), and the configuration is returned; `returned` keeps its
\* define['process.env'].
DefineConfig ==
    LET mode == ModeOf(network)
        ids1 == readCanisterIds(Some(VITE_), network, fs)
        dfx1 == dfxCanisterIds(Some(VITE_), network, fs)
        env1 == MergeEnv(processEnv, LoadEnvReturn(loadEnvGives, mode),
                         ids1.result, dfx1.result)
        ids2 == readCanisterIds(Some(VITE_), network, fs)
        dfx2 == dfxCanisterIds(Some(VITE_), network, fs)
        ids3 == readCanisterIds(Absent, network, fs)
        dfx3 == dfxCanisterIds(Absent, network, fs)
    IN  /\ processEnv' = AfterLoadEnv(env1, loadEnvGives)
        /\ previousEnv' = processEnv
        /\ call' = [fn |-> "defineConfig", prefix |-> Absent]
        /\ returned' = DefineProcessEnv(ids3.result, dfx3.result, network)
        /\ warned' = ids1.warned \o dfx1.warned \o ids2.warned \o dfx2.warned
                          \o ids3.warned \o dfx3.warned
        /\ filesRead' = ids1.filesRead \o dfx1.filesRead \o ids2.filesRead
                             \o dfx2.filesRead \o ids3.filesRead \o dfx3.filesRead
        /\ modes' = <<mode, mode>>
        /\ tried' = NoTry
        /\ UNCHANGED <<network, fs, loadEnvGives, chunk>>

InitConfig ==
    \E env \in CfgEnvironments, files \in CfgFileSystems(MaxCfgEntries),
       gives \in LoadEnvOutcomes :
        Loaded(env, files, gives)

NextConfig == ReadCanisterIds \/ DfxCanisterIds \/ DefineConfig

SpecConfig == InitConfig /\ [][NextConfig]_vars

\* rollup asks manualChunks for the chunk of the module it is bundling.
ManualChunks ==
    /\ chunk.name = "pending"
    /\ chunk' = [id |-> chunk.id, name |-> manualChunks(chunk.id)]
    /\ call' = [fn |-> "manualChunks", prefix |-> Absent]
    /\ UNCHANGED <<processEnv, previousEnv, network, fs, loadEnvGives, returned, warned, filesRead,
                   modes, tried>>

\* A module waits for its chunk; the configuration files play no part.
InitChunks ==
    \E id \in ModuleIds(MaxSegments) :
        /\ processEnv = BaseEnv
        /\ previousEnv = EmptyMap
        /\ network = NetworkOf(BaseEnv)
        /\ fs = MkFs(Missing, Missing, Missing)
        /\ loadEnvGives = NoDotenv
        /\ call = NoCall
        /\ returned = EmptyMap
        /\ warned = <<>>
        /\ filesRead = <<>>
        /\ modes = <<>>
        /\ tried = NoTry
        /\ chunk = [id |-> id, name |-> "pending"]

NextChunks == ManualChunks

SpecChunks == InitChunks /\ [][NextChunks]_vars

----------------------------------------------------------------------------
(* The claims.  Each is stated from the claim's own words: the keys, files *)
(* and modes it expects are written out here, not taken from the           *)
(* operators above that compute them.                                      *)

IsCall(fn) == call.fn = fn

\* The key the claims expect for a canister of canister_ids.json.
ExpectedIdsKey(prefix, name) ==
    (IF prefix = Absent THEN <<>> ELSE prefix[1]) \o ToUpperCase(name) \o CANISTER_ID

\* The key the claims expect for a canister of dfx.json.
ExpectedDfxKey(prefix, name) ==
    (IF prefix = Absent THEN <<>> ELSE prefix[1])
        \o ToUpperCase(SelectSeq([i \in 1..Len(name) |-> IF name[i] = "-" THEN "_" ELSE name[i]],
                                 LAMBDA c : c # "'"))
        \o CANISTER_ID

\* The canister-IDs file the claims expect for the current network.
ExpectedIdsFile ==
    IF network = "ic" \/ network = "staging" THEN CanisterIdsJson ELSE LocalCanisterIdsJson

\* The file parsed to a record of canister entries (objects).
IsIdsRecord(content) ==
    /\ content.kind = "json"
    /\ ~IsNull(content.value)
    /\ \A i \in 1..Len(content.value.entries) : ~IsNull(content.value.entries[i].details)

\* dfx.json parsed to an object.
DfxParses == fs[DfxJson].kind = "json"

\* dfx.json parsed to an object with a canisters record.
HasCanisters ==
    /\ DfxParses
    /\ ~IsNull(fs[DfxJson].value)
    /\ fs[DfxJson].value.canisters # Absent

Canisters == fs[DfxJson].value.canisters[1]

\* The entry has a 'remote' field.
EntryHasRemote(e) == ~IsNull(e.details) /\ e.details.remote # Absent

\* The entry's remote.id.local can be read: remote and remote.id are objects.
EntryRemoteReadable(e) ==
    /\ ~IsNull(e.details.remote[1])
    /\ e.details.remote[1].id # Absent
    /\ ~IsNull(e.details.remote[1].id[1])

EntryRemoteLocal(e) == Get(e.details.remote[1].id[1], "local")

\* Every canister entry of dfx.json is an object whose remote, if present,
\* is an object with an object id.
DfxWellFormed ==
    /\ HasCanisters
    /\ \A i \in 1..Len(Canisters) :
          /\ ~IsNull(Canisters[i].details)
          /\ EntryHasRemote(Canisters[i]) => EntryRemoteReadable(Canisters[i])

\* C1: when reading or parsing the file a call reads fails, the call
\* returns the empty mapping and warns once, naming that file; the call
\* returns (the failure is caught).
C1_ReadFailureGivesEmptyAndWarns ==
    /\ (IsCall("readCanisterIds") /\ fs[ExpectedIdsFile].kind # "json")
          => /\ returned = EmptyMap
             /\ warned = <<ExpectedIdsFile>>
             /\ tried.threw
    /\ (IsCall("dfxCanisterIds") /\ filesRead = <<DfxJson>> /\ fs[DfxJson].kind # "json")
          => /\ returned = EmptyMap
             /\ warned = <<DfxJson>>
             /\ tried.threw

C1_Witness ==
    /\ IsCall("readCanisterIds")
    /\ call.prefix = Some(VITE_)
    /\ network = "staging"
    /\ fs[CanisterIdsJson] = Invalid
    /\ returned = EmptyMap
    /\ warned = <<CanisterIdsJson>>

\* The canister's entry for a network: the ID its Details holds under the
\* network's name in the file, undefined when it holds none.
OwnEntry(details, net) ==
    IF \E p \in details.props : p[1] = net
    THEN (CHOOSE p \in details.props : p[1] = net)[2]
    ELSE Undefined

\* C2: for a file that parses to a record of canister entries,
\* readCanisterIds returns exactly the keys prefix + uppercase(name) +
\* "_CANISTER_ID", each with the entry for the current network of the last
\* canister in the file that gives that key.
C2_IdsKeysAndValues ==
    (IsCall("readCanisterIds") /\ IsIdsRecord(fs[ExpectedIdsFile]))
        => LET es == fs[ExpectedIdsFile].value.entries
               key(i) == ExpectedIdsKey(call.prefix, es[i].name)
           IN  /\ DOMAIN returned = {key(i) : i \in 1..Len(es)}
               /\ \A i \in 1..Len(es) :
                     (\A j \in (i + 1)..Len(es) : key(j) # key(i))
                         => returned[key(i)] = OwnEntry(es[i].details, network)

\* The same statement on the networks whose name is no member of
\* Object.prototype, where a property read finds own properties only.
C2_OffPrototypeNames ==
    (\A p \in ObjectPrototype : p[1] # network) => C2_IdsKeysAndValues

MergeSources ==
    <<processEnv,
      loadEnvGives.returns[IF network = "ic" THEN "production"
                           ELSE IF network = "staging" THEN "staging"
                           ELSE "development"],
      readCanisterIds(Some(VITE_), network, fs).result,
      dfxCanisterIds(Some(VITE_), network, fs).result>>

\* The last of the sources that has the key.
LastSource(srcs, k) ==
    CHOOSE i \in 1..Len(srcs) :
        /\ k \in DOMAIN srcs[i]
        /\ \A j \in (i + 1)..Len(srcs) : k \notin DOMAIN srcs[j]

C6_NoPartialResult ==
    ((IsCall("readCanisterIds") \/ IsCall("dfxCanisterIds"))
        /\ tried.threw /\ tried.processed > 0)
        => /\ returned = EmptyMap
           /\ Len(filesRead) = 1
           /\ warned = filesRead

\* dfx.json whose first canister has a readable remote and whose second
\* has a remote without id.
C6_Witness ==
    /\ IsCall("dfxCanisterIds")
    /\ HasCanisters
    /\ Len(Canisters) = 2
    /\ EntryHasRemote(Canisters[1]) /\ EntryRemoteReadable(Canisters[1])
    /\ EntryHasRemote(Canisters[2]) /\ ~IsNull(Canisters[2].details.remote[1])
    /\ Canisters[2].details.remote[1].id = Absent
    /\ tried.threw /\ tried.processed = 1
    /\ returned = EmptyMap
    /\ filesRead = <<DfxJson>>

\* C7: the network is DFX_NETWORK, or 'local' when it is unset;
\* readCanisterIds reads canister_ids.json exactly on 'ic' and 'staging' and
\* .dfx/local/canister_ids.json otherwise, and returns each canister's ID
\* under the network's own name; loadEnv gets 'production' on 'ic',
\* 'staging' on 'staging' and 'development' otherwise.  The lookup is the
\* property read of the Details under that name.
C7_NetworkFileKeyMode ==
    /\ network = (IF DFX_NETWORK \in DOMAIN processEnv
                  THEN processEnv[DFX_NETWORK] ELSE "local")
    /\ IsCall("readCanisterIds")
          => /\ filesRead = <<ExpectedIdsFile>>
             /\ (filesRead = <<CanisterIdsJson>>) <=> (network \in {"ic", "staging"})
             /\ IsIdsRecord(fs[ExpectedIdsFile])
                   => LET es == fs[ExpectedIdsFile].value.entries
                          key(i) == ExpectedIdsKey(call.prefix, es[i].name)
                      IN  \A i \in 1..Len(es) :
                            (\A j \in (i + 1)..Len(es) : key(j) # key(i))
                                => returned[key(i)] = Get(es[i].details, network)
    /\ IsCall("defineConfig")
          => /\ Len(modes) > 0
             /\ \A i \in 1..Len(modes) :
                   modes[i] = (CASE network = "ic" -> "production"
                                 [] network = "staging" -> "staging"
                                 [] OTHER -> "development")

\* On network 'foo' the local file is read and the IDs are looked up under
\* 'foo', which the file does not have, although it has 'local'.
C7_Witness ==
    /\ IsCall("readCanisterIds")
    /\ network = "foo"
    /\ processEnv[DFX_NETWORK] = "foo"
    /\ filesRead = <<LocalCanisterIdsJson>>
    /\ IsIdsRecord(fs[LocalCanisterIdsJson])
    /\ Len(fs[LocalCanisterIdsJson].value.entries) = 1
    /\ Get(fs[LocalCanisterIdsJson].value.entries[1].details, "local") = "lo-1"
    /\ \A k \in DOMAIN returned : returned[k] = Undefined
    /\ DOMAIN returned # {}

\* C8: on 'ic' and 'staging' dfxCanisterIds returns the empty mapping,
\* reads no file and warns of nothing, whatever dfx.json is.
C8_DfxSkippedOnRemoteNetworks ==
    (IsCall("dfxCanisterIds") /\ network \in {"ic", "staging"})
        => /\ returned = EmptyMap
           /\ filesRead = <<>>
           /\ warned = <<>>

\* On 'staging', with a dfx.json that is not valid JSON.
C8_Witness ==
    /\ IsCall("dfxCanisterIds")
    /\ network = "staging"
    /\ fs[DfxJson] = Invalid
    /\ returned = EmptyMap
    /\ warned = <<>>

\* The module's folder contains the library name.
FolderHas(lib) == Includes(Dirname(chunk.id), lib)
FolderHasLazyLib == FolderHas(DfinityNns) \/ FolderHas(DfinityNnsProto)

\* C9: every module gets one of 'vendor', 'lazy', 'index': 'lazy' exactly
\* for a folder with 'node_modules' and one of the two nns libraries,
\* 'vendor' exactly for a folder with 'node_modules' and none of the four
\* libraries, 'index' for the rest, and so for every folder without
\* 'node_modules'.
C9_ChunkOfFolder ==
    chunk.name # "pending"
        => /\ chunk.name \in {"vendor", "lazy", "index"}
           /\ (chunk.name = "lazy") <=> (FolderHas(NodeModules) /\ FolderHasLazyLib)
           /\ (chunk.name = "vendor")
                  <=> /\ FolderHas(NodeModules)
                      /\ ~FolderHas(Sveltejs) /\ ~FolderHas(Svelte)
                      /\ ~FolderHasLazyLib
           /\ ~FolderHas(NodeModules) => chunk.name = "index"

\* A module of @dfinity/nns-proto is lazy.
C9_Witness ==
    /\ chunk.id = Join(<<NodeModules, <<"@dfinity">>, <<"nns", "-proto">>, <<"index.js">>>>)
    /\ chunk.name = "lazy"

\* A value that is a string: neither undefined nor an inherited member.
IsString(v) == v # Undefined /\ \A p \in ObjectPrototype : p[2] # v

\* C10 as stated: every key of the mapping the two functions return holds
\* a defined string.
C10_EveryKeyDefined ==
    (IsCall("readCanisterIds") \/ IsCall("dfxCanisterIds"))
        => \A k \in DOMAIN returned : IsString(returned[k])

====
